---- MODULE Spec2Model ----
(***************************************************************************)
(* shclisem: a weighted semaphore in front of an http client.              *)
(*                                                                         *)
(* src/shclisem.go holds three revisions of the package.  The model       *)
(* follows the one with the four counters (lines 80-305), which has every  *)
(* operation and accessor the others have: the handler, its counters, and  *)
(* the calls DoWeightedContext makes on golang.org/x/sync's                *)
(* semaphore.Weighted and on the http client.  Every call is a goroutine;  *)
(* every access to shared state (one counter under its mutex, the          *)
(* semaphore under its mutex) is one step, so all interleavings of         *)
(* concurrent calls are explored.  A panic ends the call it happens in;    *)
(* the handler stays in use, as it does when the caller recovers.          *)
(***************************************************************************)
EXTENDS Integers, Sequences, FiniteSets

\* ------------------------------------------------------------------ bounds
\* Number of concurrent calls.
NCalls == 2
\* Largest total weight handed to NewRequestHandler.
MaxTotal == 2

\* Goroutines sharing the counter of the counter specification.
NThreads == 2
\* Largest maximum a counter is built with there.
MaxCounterMax == 2
\* Counter operations started in one run.
MaxOps == 4

Calls == 1..NCalls
Threads == 1..NThreads
\* Total weights tried: 0 is clamped to 1 by the constructor.
TotalWeights == 0..MaxTotal
\* Weights tried by the callers: negative and zero (normalised to 1) up to
\* one more than any capacity.
Weights == (-1)..(MaxTotal + 1)

\* math.MaxInt64, the maximum newCounter gives a counter built with max 0.
\* TLC's integers are 32 bits wide: the value below is the largest TLC
\* represents and stands for 2^63-1; both are far above any count a run of
\* NCalls calls reaches.
MaxInt64 == 2147483647
\* math.MaxInt32
MaxInt32 == 2147483647

VARIABLES
  built,    \* TRUE: the handler comes from NewRequestHandler; FALSE: RequestHandler{}
  sem,      \* semaphore.Weighted: [size, cur, waiters]
  ready,    \* calls whose waiter.ready channel has been closed
  waiting,  \* rh.waiting
  current,  \* rh.current
  total,    \* rh.total
  errs,     \* rh.errs
  pc,       \* where each call stands in DoWeightedContext
  weight,   \* each call's local variable weight (after line 215-217)
  low,      \* whether the call was made with a weight below 1 (before line 215)
  ctx,      \* each call's context, until Acquire has returned: "background", "live" or "done"
  err,      \* each call's local err: what client.Do returned
  ret,      \* what each call gave its caller
  req,      \* the request each call was made with: "none" (not called), "nil", "ok"
  held,     \* the tokens of the semaphore each call has been granted and not given back
  \* one counter used by several goroutines at once (lines 113-169)
  cnt,      \* the counter: [name, count, max, rollover]
  countmux, \* its sync.RWMutex: [writer, readers]; writer 0 when unlocked
  thr,      \* each goroutine: the method it is in, where, its register, its result
  ref,      \* the same operations applied one at a time, in the order of locking
  ops,      \* operations left to start
  \* one call of the constructor (lines 172-196)
  args,     \* its arguments: [tweight, timeout, cli]
  rh        \* the handler it returns; the zero RequestHandler before the call

hvars == <<built, sem, ready, waiting, current, total, errs, pc, weight, low, ctx, err, ret, req, held>>
cvars == <<cnt, countmux, thr, ref, ops>>
nvars == <<args, rh>>
vars == <<hvars, cvars, nvars>>

\* ---------------------------------------------------------------- counter
newCounter(name, max, rollover) ==
  [name |-> name, count |-> 0,
   max |-> IF max = 0 THEN MaxInt64 ELSE max, rollover |-> rollover]

\* counter.Add: the counter after the call and whether the call returned an error.
Add(c) ==
  IF c.count = c.max
    THEN IF c.rollover
           THEN [c |-> [c EXCEPT !.count = 0 + 1], failed |-> FALSE]
           ELSE [c |-> c, failed |-> TRUE]
    ELSE [c |-> [c EXCEPT !.count = @ + 1], failed |-> FALSE]

\* counter.Remove
Remove(c) ==
  IF c.count = 0
    THEN IF c.rollover
           THEN [c |-> c, failed |-> FALSE]
           ELSE [c |-> c, failed |-> TRUE]
    ELSE [c |-> [c EXCEPT !.count = @ - 1], failed |-> FALSE]

\* counter.Count
Count(c) == c.count

\* ------------------------------------------------------------- semaphore
\* semaphore.NewWeighted(n)
NewWeighted(n) == [size |-> n, cur |-> 0, waiters |-> <<>>]

\* A 64-bit Go integer (int, time.Duration), which TLC's 32-bit integers
\* cannot hold: Wide(hi, lo) is hi * 2^31 + lo with 0 <= lo < 2^31.
Wide(hi, lo) == [hi |-> hi, lo |-> lo]
\* a < b
WideLess(a, b) == a.hi < b.hi \/ (a.hi = b.hi /\ a.lo < b.lo)

\* time.Second, time.Minute and time.Hour in nanoseconds:
\* 1000000000, 60000000000 = 27 * 2^31 + 2017941504,
\* 3600000000000 = 1676 * 2^31 + 817405952.
Second == Wide(0, 1000000000)
Minute == Wide(27, 2017941504)
Hour == Wide(1676, 817405952)

\* The capacity NewRequestHandler gives the semaphore for argument tweight
\* (lines 174-178); the result fits 32 bits.
ClampWeight(tweight) ==
  IF WideLess(tweight, Wide(0, 1)) THEN 1
  ELSE IF WideLess(Wide(0, MaxInt32), tweight) THEN MaxInt32
  ELSE tweight.lo

\* The timeout NewRequestHandler keeps for argument timeout (lines 180-185).
ClampTimeout(timeout) ==
  IF WideLess(timeout, Second) THEN Minute
  ELSE IF WideLess(Hour, timeout) THEN Minute
  ELSE timeout

\* Weighted.notifyWaiters: grant the waiters at the front of the queue, in
\* order, as long as the next one fits.  Result: the semaphore and the set
\* of calls granted.
RECURSIVE notifyWaiters(_, _)
notifyWaiters(s, granted) ==
  IF s.waiters = <<>> THEN [s |-> s, granted |-> granted]
  ELSE LET w == Head(s.waiters) IN
    IF s.size - s.cur < w.n THEN [s |-> s, granted |-> granted]
    ELSE notifyWaiters([s EXCEPT !.cur = @ + w.n, !.waiters = Tail(@)],
                       granted \cup {w.id})

\* The queue without call c's waiter.
RemoveWaiter(q, c) == SelectSeq(q, LAMBDA w : w.id # c)

\* ------------------------------------------------------------ the handler
\* The handler's accessors.
GetWaitingWeight == IF ~built THEN 0 ELSE Count(waiting)
GetCurrentWeight == IF ~built THEN 0 ELSE Count(current)
GetErrorCount == IF ~built THEN 0 ELSE Count(errs)
GetTotalCount == IF ~built THEN 0 ELSE Count(total)

\* checkStruct: TRUE when it returns an error.
checkStruct == ~built

\* A goroutine outside the counter's methods.  op: the method; pc: the place
\* in it; tmp: the value read for count++ / count--; res: what the method
\* returned; before: the count when the lock was taken; want: whether the
\* same method fails when the operations run one at a time.
IdleThread ==
  [op |-> "none", pc |-> "idle", tmp |-> 0, res |-> "none", before |-> 0, want |-> FALSE]

\* No goroutine uses the separate counter.
CounterUnused ==
  /\ cnt = newCounter("", 0, FALSE)
  /\ countmux = [writer |-> 0, readers |-> {}]
  /\ thr = [t \in Threads |-> IdleThread]
  /\ ref = cnt
  /\ ops = 0

\* The struct RequestHandler.  A pointer field is <<>> when nil and <<v>>
\* when it points to v.  The zero value:
ZeroHandler ==
  [client |-> <<>>, sem |-> <<>>, timeout |-> Wide(0, 0),
   current |-> <<>>, waiting |-> <<>>, total |-> <<>>, errs |-> <<>>]

\* http.DefaultClient
DefaultClient == <<"http.DefaultClient">>

\* NewRequestHandler as its second revision has it (lines 337-355): no upper
\* limit on the timeout.
NewRequestHandlerNoHourLimit(tweight, timeout, cli) ==
  [client |-> IF cli = <<>> THEN DefaultClient ELSE cli,
   sem |-> <<NewWeighted(ClampWeight(tweight))>>,
   timeout |-> IF WideLess(timeout, Second) THEN Minute ELSE timeout,
   current |-> <<newCounter("Running", 0, FALSE)>>,
   waiting |-> <<newCounter("Waiting", 0, FALSE)>>,
   total |-> <<newCounter("Total", 0, TRUE)>>,
   errs |-> <<newCounter("Errors", 0, TRUE)>>]

\* NewRequestHandler(tweight, timeout, cli), lines 172-196.
NewRequestHandler(tweight, timeout, cli) ==
  [client |-> IF cli = <<>> THEN DefaultClient ELSE cli,
   sem |-> <<NewWeighted(ClampWeight(tweight))>>,
   timeout |-> ClampTimeout(timeout),
   current |-> <<newCounter("Running", 0, FALSE)>>,
   waiting |-> <<newCounter("Waiting", 0, FALSE)>>,
   total |-> <<newCounter("Total", 0, TRUE)>>,
   errs |-> <<newCounter("Errors", 0, TRUE)>>]

\* checkStruct on handler h (lines 285-305): the error it returns, "nil" for none.
checkStructOf(h) ==
  IF h.client = <<>> THEN "nil http client"
  ELSE IF h.sem = <<>> THEN "nil semaphore"
  ELSE IF h.current = <<>> THEN "nil current counter"
  ELSE IF h.waiting = <<>> THEN "nil waiting counter"
  ELSE IF h.errs = <<>> THEN "nil error counter"
  ELSE IF h.total = <<>> THEN "nil total counter"
  ELSE "nil"

\* The constructor is not being called.
ConstructorUnused ==
  /\ args = [tweight |-> Wide(0, 1), timeout |-> Minute, cli |-> <<>>]
  /\ rh = ZeroHandler

\* A handler with no call under way: as NewRequestHandler(tweight, timeout,
\* cli) returns it (built) or the zero RequestHandler{} (not built).  Its
\* in-flight counter stands at one of counts: 0 when it is new, more after
\* calls whose client.Do panicked (each leaves the counter one higher).
HandlerWith(tweights, builts, counts) ==
  /\ built \in builts
  /\ \E tweight \in tweights :
       LET h == NewRequestHandler(Wide(0, tweight), Minute, <<>>) IN
         /\ sem = h.sem[1]
         /\ waiting = h.waiting[1]
         /\ total = h.total[1]
         /\ errs = h.errs[1]
         /\ \E n \in counts : current = [h.current[1] EXCEPT !.count = n]
  /\ ready = {}
  /\ pc = [c \in Calls |-> "idle"]
  /\ weight = [c \in Calls |-> 0]
  /\ low = [c \in Calls |-> FALSE]
  /\ ctx = [c \in Calls |-> "background"]
  /\ err = [c \in Calls |-> "nil"]
  /\ ret = [c \in Calls |-> "none"]
  /\ req = [c \in Calls |-> "none"]
  /\ held = [c \in Calls |-> 0]

\* The handler of NewRequestHandler, or RequestHandler{}.
HandlerInit(tweights, builts) == HandlerWith(tweights, builts, {0})

Init == HandlerInit(TotalWeights, BOOLEAN) /\ CounterUnused /\ ConstructorUnused

\* A call that has returned: its locals weight, ctx and err are gone.
Gone(c) ==
  /\ weight' = [weight EXCEPT ![c] = 0]
  /\ low' = [low EXCEPT ![c] = FALSE]
  /\ ctx' = [ctx EXCEPT ![c] = "background"]
  /\ err' = [err EXCEPT ![c] = "nil"]

\* A call returns (or panics) with result r.
Return(c, r) ==
  /\ pc' = [pc EXCEPT ![c] = "done"]
  /\ ret' = [ret EXCEPT ![c] = r]
  /\ Gone(c)

\* DoWeightedContextEnter without lines 215-217: the weight is used as given.
DoWeightedContextEnterAsGiven(c, r, w, k) ==
  /\ pc[c] = "idle"
  /\ \A d \in Calls : d < c => pc[d] # "idle"
  /\ req' = [req EXCEPT ![c] = r]
  /\ IF r = "nil"
       THEN /\ Return(c, "Request is nil")
            /\ UNCHANGED waiting
       ELSE IF checkStruct
         THEN /\ Return(c, "nil http client")
              /\ UNCHANGED waiting
         ELSE LET a == Add(waiting) IN
              /\ waiting' = a.c
              /\ IF a.failed
                   THEN Return(c, "Waiting count too high")
                   ELSE /\ pc' = [pc EXCEPT ![c] = "acquire"]
                        /\ weight' = [weight EXCEPT ![c] = w]
                        /\ low' = [low EXCEPT ![c] = w < 1]
                        /\ ctx' = [ctx EXCEPT ![c] = IF k = "nil" THEN "background" ELSE k]
                        /\ UNCHANGED <<err, ret>>
  /\ UNCHANGED <<built, sem, ready, current, total, errs, held, cvars, nvars>>

\* DoWeightedContextEnter with the request tested after rh.waiting.Add()
\* instead of first.
DoWeightedContextEnterLateNilCheck(c, r, w, k) ==
  /\ pc[c] = "idle"
  /\ \A d \in Calls : d < c => pc[d] # "idle"
  /\ req' = [req EXCEPT ![c] = r]
  /\ IF checkStruct
       THEN /\ Return(c, IF r = "nil" THEN "Request is nil" ELSE "nil http client")
            /\ UNCHANGED waiting
       ELSE LET a == Add(waiting) IN
            /\ waiting' = a.c
            /\ IF r = "nil" THEN Return(c, "Request is nil")
               ELSE IF a.failed THEN Return(c, "Waiting count too high")
               ELSE /\ pc' = [pc EXCEPT ![c] = "acquire"]
                    /\ weight' = [weight EXCEPT ![c] = IF w < 1 THEN 1 ELSE w]
                    /\ low' = [low EXCEPT ![c] = w < 1]
                    /\ ctx' = [ctx EXCEPT ![c] = IF k = "nil" THEN "background" ELSE k]
                    /\ UNCHANGED <<err, ret>>
  /\ UNCHANGED <<built, sem, ready, current, total, errs, held, cvars, nvars>>

\* DoWeightedContext up to and including rh.waiting.Add() (lines 212-226).
\* r is the request, "nil" or "ok"; k is the context: "nil", "live" or "done".
\* Calls are interchangeable, so they are started in the order of their ids.
DoWeightedContextEnter(c, r, w, k) ==
  /\ pc[c] = "idle"
  /\ \A d \in Calls : d < c => pc[d] # "idle"
  /\ req' = [req EXCEPT ![c] = r]
  /\ IF r = "nil"
       THEN /\ Return(c, "Request is nil")
            /\ UNCHANGED waiting
       ELSE IF checkStruct
         THEN /\ Return(c, "nil http client")
              /\ UNCHANGED waiting
         ELSE LET a == Add(waiting) IN
              /\ waiting' = a.c
              /\ IF a.failed
                   THEN Return(c, "Waiting count too high")
                   ELSE /\ pc' = [pc EXCEPT ![c] = "acquire"]
                        /\ weight' = [weight EXCEPT ![c] = IF w < 1 THEN 1 ELSE w]
                        /\ low' = [low EXCEPT ![c] = w < 1]
                        /\ ctx' = [ctx EXCEPT ![c] = IF k = "nil" THEN "background" ELSE k]
                        /\ UNCHANGED <<err, ret>>
  /\ UNCHANGED <<built, sem, ready, current, total, errs, held, cvars, nvars>>

\* The exported entry points.
DoWeightedContext(c) ==
  \E r \in {"nil", "ok"}, w \in Weights, k \in {"nil", "live", "done"} :
    DoWeightedContextEnter(c, r, w, k)

\* DoWeighted: a context with the handler's timeout, not yet expired.
DoWeighted(c) ==
  \E r \in {"nil", "ok"}, w \in Weights :
    DoWeightedContextEnter(c, r, w, "live")

\* Do: DoWeighted with weight 1.
Do(c) ==
  \E r \in {"nil", "ok"} : DoWeightedContextEnter(c, r, 1, "live")

\* ---- rh.sem.Acquire(ctx, int64(weight)) (line 227), step by step ----
\* held after the semaphore has granted the calls of set g their weights.
Granted(g) == [d \in Calls |-> IF d \in g THEN weight[d] ELSE held[d]]

\* Acquire returns to call c: the context it was given is not read again.
Returned(c) == ctx' = [ctx EXCEPT ![c] = "background"]

\* What Acquire does under s.mu when it is entered.  A context that is
\* already done may be noticed at once (Acquire returns ctx.Err()) or not,
\* depending on the release of x/sync: both are allowed.
AcquireEnter(c) ==
  /\ pc[c] = "acquire"
  /\ \/ /\ ctx[c] = "done"
        /\ pc' = [pc EXCEPT ![c] = "acqfailed"]
        /\ Returned(c)
        /\ UNCHANGED <<sem, held>>
     \/ IF sem.size - sem.cur >= weight[c] /\ sem.waiters = <<>>
          THEN /\ sem' = [sem EXCEPT !.cur = @ + weight[c]]
               /\ held' = Granted({c})
               /\ pc' = [pc EXCEPT ![c] = "admitted"]
               /\ Returned(c)
          ELSE IF weight[c] > sem.size
            THEN \* doomed to fail: wait for the context, out of the queue
                 /\ pc' = [pc EXCEPT ![c] = "doomed"]
                 /\ UNCHANGED <<sem, held, ctx>>
            ELSE /\ sem' = [sem EXCEPT !.waiters = Append(@, [id |-> c, n |-> weight[c]])]
                 /\ pc' = [pc EXCEPT ![c] = "queued"]
                 /\ UNCHANGED <<held, ctx>>
  /\ UNCHANGED <<built, ready, waiting, current, total, errs, weight, low, err, ret, req, cvars, nvars>>

\* The waiter's ready channel was closed by a Release: Acquire returns nil.
AcquireReady(c) ==
  /\ pc[c] = "queued"
  /\ c \in ready
  /\ pc' = [pc EXCEPT ![c] = "admitted"]
  /\ ready' = ready \ {c}
  /\ Returned(c)
  /\ UNCHANGED <<built, sem, waiting, current, total, errs, weight, low, err, ret, req, held, cvars, nvars>>

\* The context is done while Acquire blocks: Acquire returns ctx.Err().  A
\* waiter granted in the meantime gives its tokens back; one still queued
\* leaves the queue, and the tokens it was blocking at the front go to the
\* waiters behind it.
AcquireCancel(c) ==
  /\ pc[c] \in {"queued", "doomed"}
  /\ ctx[c] = "done"
  /\ pc' = [pc EXCEPT ![c] = "acqfailed"]
  /\ IF pc[c] = "doomed" THEN UNCHANGED <<sem, ready, held>>
     ELSE IF c \in ready
       THEN LET n == notifyWaiters([sem EXCEPT !.cur = @ - weight[c]], {}) IN
            /\ sem' = n.s
            /\ ready' = (ready \ {c}) \cup n.granted
            /\ held' = [Granted(n.granted) EXCEPT ![c] = 0]
       ELSE LET isFront == Head(sem.waiters).id = c
                s1 == [sem EXCEPT !.waiters = RemoveWaiter(@, c)]
                n == IF isFront /\ s1.size > s1.cur
                       THEN notifyWaiters(s1, {})
                       ELSE [s |-> s1, granted |-> {}]
            IN /\ sem' = n.s
               /\ ready' = ready \cup n.granted
               /\ held' = Granted(n.granted)
  /\ Returned(c)
  /\ UNCHANGED <<built, waiting, current, total, errs, weight, low, err, ret, req, cvars, nvars>>

\* The caller's context fires (timeout or cancellation).  Only Acquire
\* reads the context, so it matters only until Acquire has returned.
CtxDone(c) ==
  /\ pc[c] \in {"acquire", "queued", "doomed"}
  /\ ctx[c] = "live"
  /\ ctx' = [ctx EXCEPT ![c] = "done"]
  /\ UNCHANGED <<built, sem, ready, waiting, current, total, errs, pc, weight, low, err, ret, req, held, cvars, nvars>>

\* ---- DoWeightedContext after Acquire ----
\* A call leaves through its deferred rh.sem.Release with result r.
Unwind(c, r) ==
  /\ pc' = [pc EXCEPT ![c] = "release"]
  /\ ret' = [ret EXCEPT ![c] = r]

\* AcquireFailed with Acquire's error ignored: the call goes on as if it had
\* been admitted.
AcquireFailedIgnored(c) ==
  /\ pc[c] = "acqfailed"
  /\ pc' = [pc EXCEPT ![c] = "admitted"]
  /\ UNCHANGED <<built, sem, ready, waiting, current, total, errs, weight, low, ctx, err, ret, req, held, cvars, nvars>>

\* Lines 228-231: Acquire failed.  rh.waiting.Remove() runs; the condition
\* tests err (Acquire's error, not nil here), so errr.Error() is evaluated
\* whatever Remove returned: with errr nil that is a nil dereference.
AcquireFailed(c) ==
  /\ pc[c] = "acqfailed"
  /\ LET r == Remove(waiting) IN
     /\ waiting' = r.c
     /\ IF r.failed
          THEN Return(c, "Too much removal & context done")
          ELSE Return(c, "panic: nil dereference (line 229)")
  /\ UNCHANGED <<built, sem, ready, current, total, errs, req, held, cvars, nvars>>

\* WaitingRemove with rh.waiting.Remove() called twice.
WaitingRemoveTwice(c) ==
  /\ pc[c] = "admitted"
  /\ LET r1 == Remove(waiting)
         r == Remove(r1.c)
     IN
     /\ waiting' = r.c
     /\ IF r1.failed \/ r.failed
          THEN Unwind(c, "Too much removal")
          ELSE /\ pc' = [pc EXCEPT ![c] = "addcurrent"]
               /\ UNCHANGED ret
  /\ UNCHANGED <<built, sem, ready, current, total, errs, weight, low, ctx, err, req, held, cvars, nvars>>

\* WaitingRemove without the rh.waiting.Remove() of line 234.
WaitingRemoveForgotten(c) ==
  /\ pc[c] = "admitted"
  /\ pc' = [pc EXCEPT ![c] = "addcurrent"]
  /\ UNCHANGED <<built, sem, ready, waiting, current, total, errs, weight, low, ctx, err, ret, req, held, cvars, nvars>>

\* Lines 233-236: defer rh.sem.Release, then rh.waiting.Remove().
WaitingRemove(c) ==
  /\ pc[c] = "admitted"
  /\ LET r == Remove(waiting) IN
     /\ waiting' = r.c
     /\ IF r.failed
          THEN Unwind(c, "Too much removal")
          ELSE /\ pc' = [pc EXCEPT ![c] = "addcurrent"]
               /\ UNCHANGED ret
  /\ UNCHANGED <<built, sem, ready, current, total, errs, weight, low, ctx, err, req, held, cvars, nvars>>

\* CurrentAdd going on to client.Do when the counter refuses the increment.
CurrentAddProceeds(c) ==
  /\ pc[c] = "addcurrent"
  /\ current' = Add(current).c
  /\ pc' = [pc EXCEPT ![c] = "executing"]
  /\ UNCHANGED <<built, sem, ready, waiting, total, errs, weight, low, ctx, err, ret, req, held, cvars, nvars>>

\* Lines 237-239: rh.current.Add(); on success the call enters client.Do.
CurrentAdd(c) ==
  /\ pc[c] = "addcurrent"
  /\ LET a == Add(current) IN
     /\ current' = a.c
     /\ IF a.failed
          THEN Unwind(c, "Running count too high")
          ELSE /\ pc' = [pc EXCEPT ![c] = "executing"]
               /\ UNCHANGED ret
  /\ UNCHANGED <<built, sem, ready, waiting, total, errs, weight, low, ctx, err, req, held, cvars, nvars>>

\* ClientDo with rh.sem.Release called at the end of the function instead
\* of deferred: a panic of client.Do leaves without releasing.
ClientDoReleaseNotDeferred(c) ==
  /\ pc[c] = "executing"
  /\ \/ \E e \in {"nil", "do error"} :
          /\ err' = [err EXCEPT ![c] = e]
          /\ pc' = [pc EXCEPT ![c] = "executed"]
          /\ UNCHANGED <<ret, weight, low, ctx>>
     \/ Return(c, "panic: client.Do")
  /\ UNCHANGED <<built, sem, ready, waiting, current, total, errs, req, held, cvars, nvars>>

\* Line 240: rh.client.Do(req) returns a response or an error, or panics.
\* A panic unwinds through the deferred Release only.
ClientDo(c) ==
  /\ pc[c] = "executing"
  /\ \/ \E e \in {"nil", "do error"} :
          /\ err' = [err EXCEPT ![c] = e]
          /\ pc' = [pc EXCEPT ![c] = "executed"]
          /\ UNCHANGED ret
     \/ /\ Unwind(c, "panic: client.Do")
        /\ UNCHANGED err
  /\ UNCHANGED <<built, sem, ready, waiting, current, total, errs, weight, low, ctx, req, held, cvars, nvars>>

\* Lines 242-243: rh.errs.Add(), then the two errors combined; err.Error()
\* is a nil dereference when client.Do returned no error.
ErrsAdd(c) ==
  /\ pc[c] = "adderrs"
  /\ errs' = Add(errs).c
  /\ IF err[c] = "nil"
       THEN Unwind(c, "panic: nil dereference (line 243)")
       ELSE Unwind(c, "Too much removal & do error")
  /\ UNCHANGED <<built, sem, ready, waiting, current, total, weight, low, ctx, err, req, held, cvars, nvars>>

\* CurrentRemove with client.Do's error returned before rh.current.Remove().
CurrentRemoveAfterErrCheck(c) ==
  IF pc[c] = "adderrs" THEN ErrsAdd(c) ELSE
  /\ pc[c] = "executed"
  /\ IF err[c] # "nil"
       THEN /\ Unwind(c, "do error")
            /\ UNCHANGED <<current, errs>>
       ELSE LET r == Remove(current) IN
            /\ current' = r.c
            /\ UNCHANGED <<errs, ret>>
            /\ pc' = [pc EXCEPT ![c] = IF r.failed THEN "adderrs" ELSE "addtotal"]
  /\ UNCHANGED <<built, sem, ready, waiting, total, weight, low, ctx, err, req, held, cvars, nvars>>

\* Line 241, and lines 245-247 when it succeeds: rh.current.Remove() under
\* the in-flight counter's mutex.  When it fails the call goes on to
\* rh.errs.Add(), which takes another mutex: other calls may run in between.
CurrentRemoveCall(c) ==
  /\ pc[c] = "executed"
  /\ LET r == Remove(current) IN
     /\ current' = r.c
     /\ IF r.failed
          THEN /\ pc' = [pc EXCEPT ![c] = "adderrs"]
               /\ UNCHANGED ret
          ELSE IF err[c] # "nil"
                 THEN Unwind(c, "do error")
                 ELSE /\ pc' = [pc EXCEPT ![c] = "addtotal"]
                      /\ UNCHANGED ret
  /\ UNCHANGED <<built, sem, ready, waiting, total, errs, weight, low, ctx, err, req, held, cvars, nvars>>

\* Lines 241-247: rh.current.Remove(), then on its failure rh.errs.Add(),
\* then the error returns.
CurrentRemove(c) ==
  IF pc[c] = "adderrs" THEN ErrsAdd(c) ELSE CurrentRemoveCall(c)

\* Lines 248-249: rh.total.Add(); return resp, nil.
TotalAdd(c) ==
  /\ pc[c] = "addtotal"
  /\ total' = Add(total).c
  /\ Unwind(c, "resp")
  /\ UNCHANGED <<built, sem, ready, waiting, current, errs, weight, low, ctx, err, req, held, cvars, nvars>>

\* The deferred rh.sem.Release(int64(weight)) (line 233), run as the call
\* leaves: give the tokens back and grant the waiters that now fit.
Release(c) ==
  /\ pc[c] = "release"
  /\ LET n == notifyWaiters([sem EXCEPT !.cur = @ - weight[c]], {}) IN
     /\ sem' = n.s
     /\ ready' = ready \cup n.granted
     /\ held' = [Granted(n.granted) EXCEPT ![c] = @ - weight[c]]
  /\ pc' = [pc EXCEPT ![c] = "done"]
  /\ Gone(c)
  /\ UNCHANGED <<built, waiting, current, total, errs, ret, req, cvars, nvars>>

\* ---- one counter shared by goroutines: Add, Remove, Count stepwise ----
\* A goroutine calls c.Add(), c.Remove() or c.Count().
CCall(t) ==
  /\ thr[t].pc = "idle"
  /\ ops > 0
  /\ ops' = ops - 1
  /\ \E o \in {"Add", "Remove", "Count"} :
       thr' = [thr EXCEPT ![t] = [IdleThread EXCEPT !.op = o, !.pc = "lock"]]
  /\ UNCHANGED <<cnt, countmux, ref, hvars, nvars>>

\* Lock granted whoever holds the mutex: Add and Remove without mutual
\* exclusion.
LockNoExclusion(t) ==
  /\ thr[t].pc = "lock"
  /\ thr[t].op \in {"Add", "Remove"}
  /\ countmux' = [countmux EXCEPT !.writer = t]
  /\ LET r == IF thr[t].op = "Add" THEN Add(ref) ELSE Remove(ref) IN
     /\ ref' = r.c
     /\ thr' = [thr EXCEPT ![t].pc = "test", ![t].before = cnt.count, ![t].want = r.failed]
  /\ UNCHANGED <<cnt, ops, hvars, nvars>>

\* c.countmux.Lock() (lines 134, 148): granted when nobody holds the mutex.
Lock(t) ==
  /\ thr[t].pc = "lock"
  /\ thr[t].op \in {"Add", "Remove"}
  /\ countmux.writer = 0
  /\ countmux.readers = {}
  /\ countmux' = [countmux EXCEPT !.writer = t]
  /\ LET r == IF thr[t].op = "Add" THEN Add(ref) ELSE Remove(ref) IN
     /\ ref' = r.c
     /\ thr' = [thr EXCEPT ![t].pc = "test", ![t].before = cnt.count, ![t].want = r.failed]
  /\ UNCHANGED <<cnt, ops, hvars, nvars>>

\* AddTest where a rollover counter at its maximum is reset to zero and Add
\* returns without counting the call.
AddTestResetOnly(t) ==
  /\ thr[t].pc = "test"
  /\ thr[t].op = "Add"
  /\ IF cnt.count = cnt.max
       THEN IF cnt.rollover
              THEN /\ cnt' = [cnt EXCEPT !.count = 0]
                   /\ thr' = [thr EXCEPT ![t].pc = "unlock", ![t].res = "nil"]
              ELSE /\ thr' = [thr EXCEPT ![t].pc = "unlock", ![t].res = "count too high"]
                   /\ UNCHANGED cnt
       ELSE /\ thr' = [thr EXCEPT ![t].pc = "load"]
            /\ UNCHANGED cnt
  /\ UNCHANGED <<countmux, ref, ops, hvars, nvars>>

\* Add, lines 136-142: at the maximum, wrap to zero or return the error.
AddTest(t) ==
  /\ thr[t].pc = "test"
  /\ thr[t].op = "Add"
  /\ IF cnt.count = cnt.max
       THEN IF cnt.rollover
              THEN /\ cnt' = [cnt EXCEPT !.count = 0]
                   /\ thr' = [thr EXCEPT ![t].pc = "load"]
              ELSE /\ thr' = [thr EXCEPT ![t].pc = "unlock", ![t].res = "count too high"]
                   /\ UNCHANGED cnt
       ELSE /\ thr' = [thr EXCEPT ![t].pc = "load"]
            /\ UNCHANGED cnt
  /\ UNCHANGED <<countmux, ref, ops, hvars, nvars>>

\* RemoveTest without the test for zero: Remove always decrements.
RemoveTestUnchecked(t) ==
  /\ thr[t].pc = "test"
  /\ thr[t].op = "Remove"
  /\ thr' = [thr EXCEPT ![t].pc = "load"]
  /\ UNCHANGED <<cnt, countmux, ref, ops, hvars, nvars>>

\* Remove, lines 150-156: at zero, return nil or the error.
RemoveTest(t) ==
  /\ thr[t].pc = "test"
  /\ thr[t].op = "Remove"
  /\ IF cnt.count = 0
       THEN thr' = [thr EXCEPT ![t].pc = "unlock",
                    ![t].res = IF cnt.rollover THEN "nil" ELSE "Too much removal"]
       ELSE thr' = [thr EXCEPT ![t].pc = "load"]
  /\ UNCHANGED <<cnt, countmux, ref, ops, hvars, nvars>>

\* c.count++ / c.count-- (lines 143, 157) read the count ...
Load(t) ==
  /\ thr[t].pc = "load"
  /\ thr' = [thr EXCEPT ![t].pc = "store", ![t].tmp = cnt.count]
  /\ UNCHANGED <<cnt, countmux, ref, ops, hvars, nvars>>

\* ... and write it back changed by one; the method returns nil.
Store(t) ==
  /\ thr[t].pc = "store"
  /\ cnt' = [cnt EXCEPT !.count = IF thr[t].op = "Add" THEN thr[t].tmp + 1 ELSE thr[t].tmp - 1]
  /\ thr' = [thr EXCEPT ![t].pc = "unlock", ![t].res = "nil"]
  /\ UNCHANGED <<countmux, ref, ops, hvars, nvars>>

\* The deferred c.countmux.Unlock() (lines 135, 149).
Unlock(t) ==
  /\ thr[t].pc = "unlock"
  /\ countmux' = [countmux EXCEPT !.writer = 0]
  /\ thr' = [thr EXCEPT ![t].pc = "idle"]
  /\ UNCHANGED <<cnt, ref, ops, hvars, nvars>>

\* Count, line 162: c.countmux.RLock(), granted when no writer holds the mutex.
RLock(t) ==
  /\ thr[t].pc = "lock"
  /\ thr[t].op = "Count"
  /\ countmux.writer = 0
  /\ countmux' = [countmux EXCEPT !.readers = @ \cup {t}]
  /\ thr' = [thr EXCEPT ![t].pc = "read", ![t].before = cnt.count]
  /\ UNCHANGED <<cnt, ref, ops, hvars, nvars>>

\* Count, lines 163-164: return c.count, then the deferred RUnlock.
ReadUnlock(t) ==
  /\ thr[t].pc = "read"
  /\ countmux' = [countmux EXCEPT !.readers = @ \ {t}]
  /\ thr' = [thr EXCEPT ![t].pc = "idle", ![t].res = cnt.count]
  /\ UNCHANGED <<cnt, ref, ops, hvars, nvars>>

\* A counter built by newCounter("ctr", max, rollover), not yet used.
CounterInit ==
  /\ \E max \in 0..MaxCounterMax, rollover \in BOOLEAN :
       cnt = newCounter("ctr", max, rollover)
  /\ countmux = [writer |-> 0, readers |-> {}]
  /\ thr = [t \in Threads |-> IdleThread]
  /\ ref = cnt
  /\ ops = MaxOps

CounterNext ==
  \E t \in Threads :
    \/ CCall(t)
    \/ Lock(t)
    \/ AddTest(t)
    \/ RemoveTest(t)
    \/ Load(t)
    \/ Store(t)
    \/ Unlock(t)
    \/ RLock(t)
    \/ ReadUnlock(t)

\* The counter specification: goroutines on one counter, no handler call.
InitCounter == HandlerInit({1}, {TRUE}) /\ CounterInit /\ ConstructorUnused

SpecCounter == InitCounter /\ [][CounterNext]_vars

Next ==
  \E c \in Calls :
    \/ Do(c)
    \/ DoWeighted(c)
    \/ DoWeightedContext(c)
    \/ AcquireEnter(c)
    \/ AcquireReady(c)
    \/ AcquireCancel(c)
    \/ CtxDone(c)
    \/ AcquireFailed(c)
    \/ WaitingRemove(c)
    \/ CurrentAdd(c)
    \/ ClientDo(c)
    \/ CurrentRemove(c)
    \/ TotalAdd(c)
    \/ Release(c)

Spec == Init /\ [][Next]_vars

\* What call c does once it is inside DoWeightedContext, and the firing of
\* its context.
Step(c) ==
  \/ AcquireEnter(c)
  \/ AcquireReady(c)
  \/ AcquireCancel(c)
  \/ CtxDone(c)
  \/ AcquireFailed(c)
  \/ WaitingRemove(c)
  \/ CurrentAdd(c)
  \/ ClientDo(c)
  \/ CurrentRemove(c)
  \/ TotalAdd(c)
  \/ Release(c)

\* The calls on a constructed handler, with every goroutine scheduled as
\* long as it can run, every client.Do returning (or panicking) and every
\* context that has a deadline or a cancel function ("live") firing while
\* its call is still in Acquire.  A call given context.Background() or nil
\* has a context that never fires.
InitLive == HandlerInit({1}, {TRUE}) /\ CounterUnused /\ ConstructorUnused

SpecLive == InitLive /\ [][Next]_vars /\ \A c \in Calls : WF_vars(Step(c))

\* The same calls on a handler of NewRequestHandler(MaxTotal, ..) that has
\* been in use: so many earlier calls have ended in a panic of client.Do,
\* each leaving rh.current one higher (line 241 is skipped), that the
\* counter stands at its maximum math.MaxInt64 or up to NCalls - 1 below.
\* None of those calls is under way any more.
InitSat ==
  /\ HandlerWith({MaxTotal}, {TRUE}, {MaxInt64 - k : k \in 0..(NCalls - 1)})
  /\ CounterUnused
  /\ ConstructorUnused

SpecSat == InitSat /\ [][Next]_vars

\* ------------------------------------------------------- the constructor
\* Arguments tried: total weights around 1 and around math.MaxInt32 (-1, 0,
\* 1, 2, MaxInt32, MaxInt32 + 1, MaxInt32 + 2), timeouts around a second
\* and around an hour (-1ns, 0, 1s - 1ns, 1s, 1s + 1ns, 1m, 1h, 1h + 1ns,
\* 1677 * 2^31 ns), and a nil or a given client.
ArgWeights ==
  {Wide(-1, MaxInt32), Wide(0, 0), Wide(0, 1), Wide(0, 2),
   Wide(0, MaxInt32), Wide(1, 0), Wide(1, 1)}
ArgTimeouts ==
  {Wide(-1, MaxInt32), Wide(0, 0), Wide(0, 999999999), Second,
   Wide(0, 1000000001), Minute, Hour, Wide(1676, 817405953), Wide(1677, 0)}
ArgClients == {<<>>, <<"cli">>}

\* rh := NewRequestHandler(tweight, timeout, cli)
Construct ==
  /\ rh = ZeroHandler
  /\ rh' = NewRequestHandler(args.tweight, args.timeout, args.cli)
  /\ UNCHANGED <<args, hvars, cvars>>

InitNew ==
  /\ HandlerInit({1}, {TRUE})
  /\ CounterUnused
  /\ args \in [tweight : ArgWeights, timeout : ArgTimeouts, cli : ArgClients]
  /\ rh = ZeroHandler

NextNew == Construct

SpecNew == InitNew /\ [][NextNew]_vars

\* ------------------------------------------------------------ properties
RECURSIVE SumTo(_, _)
\* The sum of f[1], ..., f[n].
SumTo(f, n) == IF n = 0 THEN 0 ELSE f[n] + SumTo(f, n - 1)

\* The weight held at the gate by all calls together.
HeldWeight == SumTo(held, NCalls)

\* Every call has left DoWeightedContext.
AllDone == \A c \in Calls : pc[c] = "done"

\* C1: the weights of the calls that have acquired the gate and not yet
\* released it sum to at most the capacity (and to what the semaphore
\* counts), and a call inside client.Do holds its weight, which is >= 1.
C1_HeldWithinCapacity ==
  /\ HeldWeight <= sem.size
  /\ HeldWeight = sem.cur
  /\ \A c \in Calls : held[c] >= 0
  /\ \A c \in Calls :
       pc[c] = "executing" => (held[c] = weight[c] /\ weight[c] >= 1)

\* C1 witness: the gate is full with a call inside client.Do while another
\* call waits in the queue.
C1_Witness ==
  \E c, d \in Calls :
    /\ pc[c] = "executing"
    /\ pc[d] = "queued"
    /\ HeldWeight = sem.size

\* C2: at every instant GetCurrentWeight() is at most the total weight the
\* handler was constructed with.
C2_CurrentWithinTotal == built => GetCurrentWeight <= sem.size

\* C3: a call whose weight exceeds the total weight is turned away at once:
\* it never waits for the gate or for its context, is never admitted and
\* never reaches client.Do.
C3_OverweightFailsFast ==
  \A c \in Calls :
    weight[c] > sem.size =>
      pc[c] \notin {"doomed", "queued", "admitted", "addcurrent", "executing",
                    "executed", "adderrs", "addtotal", "release"}

\* Calls whose client.Do returned an error, and calls that succeeded.
FailedCalls == {c \in Calls : ret[c] \in {"do error", "Too much removal & do error"}}
SucceededCalls == {c \in Calls : ret[c] = "resp"}

\* C4: once all calls have returned, the error counter counts the calls whose
\* client.Do returned an error and the completed counter those that succeeded.
C4_CountsMatchOutcomes ==
  (built /\ AllDone) =>
    /\ GetErrorCount = Cardinality(FailedCalls)
    /\ GetTotalCount = Cardinality(SucceededCalls)

\* What a call adds to GetWaitingWeight() + GetCurrentWeight(): 1 from its
\* waiting.Add() until its waiting.Remove(), 1 again from its current.Add()
\* until its current.Remove(), and 1 for good when client.Do panicked.
Contribution ==
  [c \in Calls |->
     IF pc[c] \in {"acquire", "queued", "doomed", "acqfailed", "admitted",
                   "executing", "executed"}
          \/ ret[c] = "panic: client.Do"
       THEN 1 ELSE 0]

\* C5: the two counters together hold exactly what the calls under way
\* contribute, so a call that has returned its response contributes nothing,
\* and once all calls have returned successfully both counters are back at 0.
C5_SuccessLeavesNoWeight ==
  built =>
    /\ GetWaitingWeight + GetCurrentWeight = SumTo(Contribution, NCalls)
    /\ \A c \in Calls : ret[c] = "resp" => Contribution[c] = 0
    /\ (\A c \in Calls : pc[c] = "done" /\ ret[c] = "resp") =>
         (GetWaitingWeight = 0 /\ GetCurrentWeight = 0)

\* C5 witness: all calls have returned their response, after having been
\* counted as waiting and as running.
C5_Witness ==
  /\ built
  /\ \A c \in Calls : pc[c] = "done" /\ ret[c] = "resp"
  /\ GetTotalCount = NCalls

\* The results of a failed call: a call turned away at the start, one whose
\* acquisition failed (it ends in the nil dereference of line 229, after
\* rh.waiting.Remove()), one whose counter update failed after admission,
\* and one whose client.Do returned an error.
Failures ==
  {"Request is nil", "nil http client", "Waiting count too high",
   "Too much removal & context done", "panic: nil dereference (line 229)",
   "Too much removal", "Running count too high", "do error",
   "Too much removal & do error", "panic: nil dereference (line 243)"}

\* C6: once every call has left, each with its response or with one of the
\* failures above, no waiting and no in-flight weight is left, however many
\* calls failed and where.
C6_FailureLeavesNoWeight ==
  (AllDone /\ \A c \in Calls : ret[c] \in Failures \cup {"resp"}) =>
    (GetWaitingWeight = 0 /\ GetCurrentWeight = 0)

\* C6 witness: every call has failed, one at acquisition and one in
\* client.Do, on a constructed handler.
C6_Witness ==
  /\ built
  /\ AllDone
  /\ \E c, d \in Calls :
       /\ ret[c] = "panic: nil dereference (line 229)"
       /\ ret[d] = "do error"
  /\ \A c \in Calls : ret[c] \in Failures

\* The results that report a failed acquisition to the caller.
AdmissionErrors == {"context done", "Too much removal & context done"}

\* C7: with total weight 1 at most one call holds the gate at a time; and a
\* call whose context fires while it waits for the gate returns an admission
\* error holding nothing, the step that takes it out of the queue and the
\* step that returns leaving the in-flight counter, the place of every other
\* call and the tokens of every call already admitted as they were.
C7_CancelledWaiterReturnsError ==
  /\ [](sem.size = 1 => Cardinality({c \in Calls : held[c] > 0}) <= 1)
  /\ [][\A c \in Calls :
         /\ (pc[c] \in {"queued", "doomed"} /\ pc'[c] = "acqfailed") =>
              /\ held'[c] = 0
              /\ current' = current
              /\ \A d \in Calls \ {c} :
                   pc'[d] = pc[d] /\ (held[d] > 0 => held'[d] = held[d])
         /\ (pc[c] = "acqfailed" /\ pc'[c] = "done") =>
              /\ ret'[c] \in AdmissionErrors
              /\ UNCHANGED <<sem, ready, held, current>>
              /\ \A d \in Calls \ {c} : pc'[d] = pc[d]]_vars

\* C8: a call made with a nil request returns the invalid-request error in
\* one step, from any state of the handler, without entering client.Do and
\* leaving the four counters and the gate as they were.
C8_NilRequestChangesNothing ==
  [][\A c \in Calls :
       (pc[c] = "idle" /\ req'[c] = "nil") =>
         /\ pc'[c] = "done"
         /\ ret'[c] = "Request is nil"
         /\ UNCHANGED <<built, sem, ready, held, waiting, current, total, errs>>]_vars

\* C8 witness: a call made with a nil request has returned while an earlier
\* call of a constructed handler is inside client.Do.
C8_Witness ==
  /\ built
  /\ \E c, d \in Calls :
       /\ req[c] = "nil" /\ pc[c] = "done" /\ ret[c] = "Request is nil"
       /\ pc[d] = "executing"

\* C9: the count of a counter used by several goroutines stays within
\* [0, max] at every step; whenever no Add or Remove holds the mutex the
\* counter is what the same calls give when run one after the other in the
\* order they took the mutex, and every Add, Remove and Count returns what
\* it returns in that sequential run.
C9_CountInRangeAndAtomic ==
  /\ cnt.count >= 0
  /\ cnt.count <= cnt.max
  /\ countmux.writer = 0 => cnt = ref
  /\ \A t \in Threads :
       /\ thr[t].pc = "unlock" =>
            (cnt = ref /\ (thr[t].res # "nil") = thr[t].want)
       /\ thr[t].pc = "read" => cnt.count = thr[t].before

\* C9 witness: two goroutines are inside Add or Remove at once, one holding
\* the mutex after changing the count, the other waiting for the mutex.
C9_Witness ==
  \E t, u \in Threads :
    /\ thr[t].pc = "unlock" /\ thr[t].res = "nil" /\ cnt.count # thr[t].before
    /\ thr[u].pc = "lock" /\ thr[u].op \in {"Add", "Remove"}

\* C10: an Add on a rollover counter whose count is at its maximum M returns
\* no error and leaves the count at 1.
C10_RolloverAddGivesOne ==
  \A t \in Threads :
    (thr[t].op = "Add" /\ thr[t].pc = "unlock" /\ cnt.rollover
       /\ thr[t].before = cnt.max) =>
      (thr[t].res = "nil" /\ cnt.count = 1)

\* C10 witness: a rollover counter of maximum MaxCounterMax, taken to its
\* maximum by that many Adds, has been through one more Add.
C10_Witness ==
  \E t \in Threads :
    /\ thr[t].op = "Add" /\ thr[t].pc = "unlock" /\ cnt.rollover
    /\ cnt.max = MaxCounterMax /\ thr[t].before = cnt.max
    /\ ops = MaxOps - (MaxCounterMax + 1)
    /\ cnt.count = 1

\* C11: at the bounds a counter follows its policy.  Add on a saturate
\* counter at its maximum returns the error and leaves the count; Remove at
\* zero leaves the count at zero and returns the error on a saturate
\* counter, nil on a rollover counter.  The handler's waiting and in-flight
\* counters are saturate, its completed and error counters rollover.
C11_BoundaryFollowsPolicy ==
  /\ \A t \in Threads :
       thr[t].pc = "unlock" =>
         /\ (thr[t].op = "Add" /\ ~cnt.rollover /\ thr[t].before = cnt.max) =>
              (thr[t].res = "count too high" /\ cnt.count = cnt.max)
         /\ (thr[t].op = "Remove" /\ thr[t].before = 0) =>
              /\ cnt.count = 0
              /\ thr[t].res = IF cnt.rollover THEN "nil" ELSE "Too much removal"
  /\ built =>
       /\ ~waiting.rollover /\ ~current.rollover
       /\ total.rollover /\ errs.rollover

\* C11 witness: on a saturate counter one goroutine has had its Remove
\* refused at zero and another now has its Add refused at the maximum.
C11_Witness ==
  /\ built
  /\ ~cnt.rollover
  /\ \E t, u \in Threads :
       /\ thr[t].pc = "unlock" /\ thr[t].op = "Add"
       /\ thr[t].before = cnt.max /\ thr[t].res = "count too high"
       /\ thr[u].pc = "idle" /\ thr[u].op = "Remove"
       /\ thr[u].before = 0 /\ thr[u].res = "Too much removal"

\* C12: the constructor brings every argument into range.  The capacity is
\* 1 for a total weight below 1, MaxInt32 for one above MaxInt32, else the
\* total weight; the timeout is one minute for a timeout below a second or
\* above an hour, else the timeout; no field of the handler is nil, so
\* checkStruct returns no error.
C12_ConstructorClamps ==
  rh # ZeroHandler =>
    LET tw == args.tweight
        to == args.timeout
    IN
      /\ rh.sem # <<>>
      /\ (tw.hi < 0 \/ (tw.hi = 0 /\ tw.lo < 1)) => rh.sem[1].size = 1
      /\ tw.hi > 0 => rh.sem[1].size = MaxInt32
      /\ (tw.hi = 0 /\ tw.lo >= 1) => rh.sem[1].size = tw.lo
      /\ rh.sem[1].cur = 0
      /\ (WideLess(to, Second) \/ WideLess(Hour, to)) => rh.timeout = Minute
      /\ (~WideLess(to, Second) /\ ~WideLess(Hour, to)) => rh.timeout = to
      /\ rh.client # <<>>
      /\ (args.cli # <<>> => rh.client = args.cli)
      /\ rh.current # <<>> /\ rh.waiting # <<>>
      /\ rh.total # <<>> /\ rh.errs # <<>>
      /\ checkStructOf(rh) = "nil"

\* C12 witness: a handler built from a total weight above MaxInt32, a
\* timeout above an hour and a nil client.
C12_Witness ==
  /\ args.tweight.hi > 0
  /\ WideLess(Hour, args.timeout)
  /\ args.cli = <<>>
  /\ rh # ZeroHandler
  /\ rh.sem[1].size = MaxInt32
  /\ rh.timeout = Minute
  /\ rh.client = DefaultClient
\* The weight of each call that is counted as waiting (between
\* rh.waiting.Add() and rh.waiting.Remove()), and of each call that is
\* counted as in flight (between rh.current.Add() and rh.current.Remove()).
WaitingWeights ==
  [c \in Calls |->
     IF pc[c] \in {"acquire", "queued", "doomed", "acqfailed", "admitted"}
       THEN weight[c] ELSE 0]
RunningWeights ==
  [c \in Calls |-> IF pc[c] \in {"executing", "executed"} THEN weight[c] ELSE 0]

\* C13: the waiting and in-flight counters track weight: GetWaitingWeight()
\* is the sum of the weights of the calls waiting for the gate and
\* GetCurrentWeight() the sum of the weights of the calls admitted and not
\* finished.
C13_CountersTrackWeight ==
  built =>
    /\ GetWaitingWeight = SumTo(WaitingWeights, NCalls)
    /\ GetCurrentWeight = SumTo(RunningWeights, NCalls)
\* C14: a call whose acquisition fails takes itself off the waiting counter
\* and returns the acquisition error to its caller; it returns the
\* combination of both errors only if taking itself off the counter failed.
\* Either way it returns an error value: it does not panic.
C14_AcquisitionFailureReturnsError ==
  [][\A c \in Calls :
       (pc[c] = "acqfailed" /\ pc'[c] = "done") =>
         \/ /\ waiting'.count = waiting.count - 1
            /\ ret'[c] = "context done"
         \/ /\ waiting.count = 0
            /\ waiting' = waiting
            /\ ret'[c] = "Too much removal & context done"]_vars
\* The calls between a successful acquisition and their return.
Holding(c) ==
  \/ pc[c] \in {"admitted", "addcurrent", "executing", "executed", "adderrs",
                "addtotal", "release"}
  \/ (pc[c] = "queued" /\ c \in ready)

\* C15: the gate is released exactly once, with the weight acquired, by
\* every call that acquired it, whatever the path it leaves by, and never
\* by a call that did not acquire it.  A call holds its weight from the
\* acquisition to its deferred release and nothing before or after; the
\* only step of the handler's code that gives weight back is that release,
\* and it gives back all the call holds.  So no weight is held when no call
\* is between acquisition and return.
C15_ReleasedExactlyOnce ==
  /\ [](/\ \A c \in Calls : held[c] = IF Holding(c) THEN weight[c] ELSE 0
        /\ \A c \in Calls : Holding(c) => weight[c] >= 1
        /\ sem.cur = HeldWeight
        /\ (\A c \in Calls : ~Holding(c)) => sem.cur = 0)
  /\ [][\A c \in Calls :
          /\ (pc[c] = "release" /\ pc'[c] # "release") =>
               /\ pc'[c] = "done"
               /\ held'[c] = 0
               /\ sem'.cur - HeldWeight' = 0
               /\ HeldWeight' >= HeldWeight - weight[c]
          /\ (held'[c] < held[c]) =>
               \/ pc[c] = "release"
               \/ (pc[c] = "queued" /\ pc'[c] = "acqfailed")
          /\ (pc'[c] = "done" /\ pc[c] # "done" /\ pc[c] # "release") =>
               (held[c] = 0 /\ sem' = sem)]_vars

\* C15 witness: a call whose client.Do panicked and a call whose client.Do
\* returned an error have both released their weight and left: nothing is
\* held.
C15_Witness ==
  /\ AllDone
  /\ sem.cur = 0
  /\ \E c, d \in Calls :
       /\ ret[c] = "panic: client.Do"
       /\ ret[d] = "do error"
\* The calls in client.Do or just back from it, counted in flight.
InFlight == {c \in Calls : pc[c] \in {"executing", "executed"}}
\* The calls unwinding through their deferred release.
Leaving == {c \in Calls : pc[c] = "release"}

\* C16: a call that has incremented the in-flight counter decrements it
\* before it leaves, whether the execution returned a response, returned an
\* error or panicked; the gate is released before it leaves too.  So the
\* counter counts the calls in flight, apart from calls still leaving, and
\* a call that has left holds nothing.
C16_CurrentDecrementedOnEveryOutcome ==
  built =>
    /\ Cardinality(InFlight) <= GetCurrentWeight
    /\ GetCurrentWeight <= Cardinality(InFlight \cup Leaving)
    /\ \A c \in Calls : pc[c] = "done" => held[c] = 0
\* Call c takes the step after rh.current.Add() with the in-flight counter
\* at its maximum: the increment fails.
SaturatedStep(c) ==
  /\ pc[c] = "addcurrent"
  /\ pc'[c] # "addcurrent"
  /\ current.count = current.max

\* C17 as stated: a call whose in-flight increment fails after a successful
\* acquisition still goes on to invoke the execution capability.
C17_SaturatedCallStillExecutes ==
  [][\A c \in Calls : SaturatedStep(c) => pc'[c] = "executing"]_vars

\* C17 amended: a call whose in-flight increment fails after a successful
\* acquisition does not invoke the execution capability.  It returns the
\* counter's error, leaves the in-flight counter as it was, and releases the
\* weight it acquired before it leaves.
C17_SaturatedCallReturnsError ==
  /\ [][\A c \in Calls :
          /\ SaturatedStep(c) =>
               /\ pc'[c] = "release"
               /\ ret'[c] = "Running count too high"
               /\ current' = current
               /\ held'[c] = weight[c] /\ weight[c] >= 1
          /\ ret'[c] = "Running count too high" =>
               (pc'[c] \in {"release", "done"} /\ err'[c] = "nil")]_vars
  /\ [](\A c \in Calls :
          (pc[c] = "done" /\ ret[c] = "Running count too high") => held[c] = 0)

\* C17 witness: a call refused by the in-flight counter at its maximum is
\* about to release its weight, the call that fills the counter still in
\* client.Do.
C17_Witness ==
  \E c, d \in Calls :
    /\ pc[c] = "release"
    /\ ret[c] = "Running count too high"
    /\ held[c] = weight[c]
    /\ pc[d] = "executing"
    /\ current.count = current.max
\* C18: a call made with a weight below 1 is handled as a call of weight 1.
\* Its weight is 1 from its entry on, it joins the waiting counter by 1, it
\* queues for 1 unit, holds 1 unit from acquisition to release and gives 1
\* unit back; every step of every call moves each counter by at most 1; and
\* neither the gate's held weight nor a counter is ever negative.
C18_LowWeightIsOne ==
  /\ [](/\ \A c \in Calls :
             low[c] =>
               /\ weight[c] = 1
               /\ held[c] = IF Holding(c) THEN 1 ELSE 0
        /\ \A i \in DOMAIN sem.waiters :
             low[sem.waiters[i].id] => sem.waiters[i].n = 1
        /\ sem.cur >= 0
        /\ \A c \in Calls : held[c] >= 0
        /\ Count(waiting) >= 0 /\ Count(current) >= 0
        /\ Count(total) >= 0 /\ Count(errs) >= 0)
  /\ [][/\ \A c \in Calls :
             /\ (pc[c] = "idle" /\ low'[c]) =>
                  /\ pc'[c] = "acquire"
                  /\ weight'[c] = 1
                  /\ Count(waiting') = Count(waiting) + 1
             /\ (low[c] /\ pc[c] = "acquire" /\ pc'[c] = "admitted") =>
                  sem'.cur = sem.cur + 1
             /\ (low[c] /\ pc[c] = "release" /\ pc'[c] = "done") =>
                  /\ held[c] = 1
                  /\ held'[c] = 0
                  /\ sem'.cur - HeldWeight' = 0
                  /\ HeldWeight' >= HeldWeight - 1
             /\ (low[c] /\ pc'[c] # "done") => low'[c]
        /\ Count(waiting') - Count(waiting) \in {-1, 0, 1}
        /\ Count(current') - Count(current) \in {-1, 0, 1}]_vars

\* C18 witness: a call made with a weight below 1 has been executed and is
\* about to release the one unit it holds, out of a capacity of more.
C18_Witness ==
  \E c \in Calls :
    /\ low[c]
    /\ pc[c] = "release"
    /\ ret[c] = "resp"
    /\ held[c] = 1
    /\ sem.cur = 1
    /\ sem.size > 1

\* The ways a call ends without returning to its caller although client.Do,
\* if it was called, returned: the panics of DoWeightedContext's own code.
OwnPanics ==
  {"panic: nil dereference (line 229)", "panic: nil dereference (line 243)"}

\* A call that has entered DoWeightedContext with a context that can fire
\* comes to an end, by a return or by a panic, holding nothing of the gate.
EveryCallEnds ==
  \A c \in Calls :
    (pc[c] = "acquire" /\ ctx[c] # "background") ~> (pc[c] = "done" /\ held[c] = 0)

\* C19: every call returns.  If every execution returns and the context of
\* a call fires while the call still waits, a call that has entered
\* DoWeightedContext with such a context returns to its caller, holding
\* nothing of the gate; this includes the calls whose weight exceeds the
\* capacity.
C19_EveryCallReturns ==
  \A c \in Calls :
    (pc[c] = "acquire" /\ ctx[c] # "background")
      ~> (pc[c] = "done" /\ held[c] = 0 /\ ret[c] \notin OwnPanics)
\* The calls about to run rh.waiting.Remove() (lines 228, 234) and
\* rh.current.Remove() (line 241).
BeforeWaitingRemove == {c \in Calls : pc[c] \in {"acqfailed", "admitted"}}
BeforeCurrentRemove == {c \in Calls : pc[c] = "executed"}

\* C20: on a handler of NewRequestHandler no Remove of the waiting or the
\* in-flight counter fails.  Each counter is at least the number of calls
\* about to remove themselves from it, so every Remove finds a count of 1
\* or more; no call ends with 'Too much removal', alone or combined; the
\* branch of line 241 that combines it with the execution error is never
\* taken, with a nil error or any other, and the error counter, which only
\* that branch increments, stays 0.
C20_RemoveNeverFails ==
  built =>
    /\ Count(waiting) >= Cardinality(BeforeWaitingRemove)
    /\ Count(current) >= Cardinality(BeforeCurrentRemove)
    /\ \A c \in Calls : pc[c] # "adderrs"
    /\ \A c \in Calls :
         ret[c] \notin {"Too much removal", "Too much removal & context done",
                        "Too much removal & do error",
                        "panic: nil dereference (line 243)"}
    /\ Count(errs) = 0

\* C20 witness: one call has left after a failed acquisition and another
\* after an execution error, each having removed itself from the counters
\* it had joined; both counters are back at 0.
C20_Witness ==
  /\ built
  /\ AllDone
  /\ Count(waiting) = 0
  /\ Count(current) = 0
  /\ \E c, d \in Calls :
       /\ ret[c] = "panic: nil dereference (line 229)"
       /\ ret[d] = "do error"
====
